---- MODULE Spec2Model ----
(***************************************************************************)
(* Model of otread(pathname, filename) of src/otread/otread.py: the        *)
(* conversion of one .otb+ archive into <basename>.yaml and                *)
(* <basename>.csv, called once per archive by the batch loop of __main__.  *)
(*                                                                         *)
(* An XML text is a sequence of characters (one-character strings); the    *)
(* numeric conversions int() and float() read it character by character.   *)
(* A float is a rational <<n, d>> in lowest terms with d > 0, rounded      *)
(* to MantBits significant bits after every operation (round to nearest,   *)
(* ties to even); <<0, 0>> is NaN, <<1, 0>> and <<-1, 0>> the infinities.  *)
(***************************************************************************)
EXTENDS Integers, Sequences, FiniteSets, TLC

\* ------------------------------------------------------------------ bounds
\* Significant bits of the modelled float format (float64 has 53).
MantBits == 9
\* <signal> nodes of the generated metadata documents.
MaxSignals == 2
\* Fields in which a generated archive departs from the well-formed one.
MaxDefects == 1
\* Sample rows of the well-formed raw file.
BaseRows == 4

\* ---------------------------------------------------------------- integers
RECURSIVE Pow(_, _)
Pow(b, k) == IF k <= 0 THEN 1 ELSE b * Pow(b, k - 1)

Abs(n) == IF n < 0 THEN 0 - n ELSE n

Sgn(n) == IF n < 0 THEN 0 - 1 ELSE IF n > 0 THEN 1 ELSE 0

RECURSIVE Gcd(_, _)
Gcd(a, b) == IF b = 0 THEN a ELSE Gcd(b, a % b)

\* -------------------------------------------------------------- float model
NaN == <<0, 0>>

Inf(s) == <<s, 0>>

IsNaN(x) == x = NaN

IsInf(x) == x[2] = 0 /\ x[1] # 0

IsFinite(x) == x[2] # 0

Norm(n, d) ==
    LET g == Gcd(Abs(n), d)
    IN  <<n \div g, d \div g>>

\* a/d rounded to an integer, ties to even (a >= 0, d > 0).
RoundHalfEven(a, d) ==
    LET q == a \div d
        r == a % d
    IN  IF 2 * r < d THEN q
        ELSE IF 2 * r > d THEN q + 1
        ELSE IF q % 2 = 0 THEN q ELSE q + 1

\* a/d > 0 rounded to MantBits significant bits.
RECURSIVE RoundPos(_, _)
RoundPos(a, d) ==
    IF a >= d * Pow(2, MantBits)
    THEN LET h == RoundPos(a, 2 * d) IN Norm(2 * h[1], h[2])
    ELSE IF a < d * Pow(2, MantBits - 1)
    THEN LET h == RoundPos(2 * a, d) IN Norm(h[1], 2 * h[2])
    ELSE <<RoundHalfEven(a, d), 1>>

\* The float nearest to the rational n/d (d > 0).
FRound(n, d) ==
    IF n = 0 THEN <<0, 1>>
    ELSE LET r == RoundPos(Abs(n), d) IN <<Sgn(n) * r[1], r[2]>>

FromInt(k) == FRound(k, 1)

FMul(x, y) ==
    IF IsNaN(x) \/ IsNaN(y) THEN NaN
    ELSE IF IsInf(x) \/ IsInf(y)
    THEN (IF x[1] = 0 \/ y[1] = 0 THEN NaN ELSE Inf(Sgn(x[1]) * Sgn(y[1])))
    ELSE FRound(x[1] * y[1], x[2] * y[2])

FDiv(x, y) ==
    IF IsNaN(x) \/ IsNaN(y) THEN NaN
    ELSE IF IsInf(x) THEN (IF IsInf(y) THEN NaN
                           ELSE Inf(Sgn(x[1]) * (IF y[1] < 0 THEN 0 - 1 ELSE 1)))
    ELSE IF IsInf(y) THEN <<0, 1>>
    ELSE IF y[1] = 0 THEN (IF x[1] = 0 THEN NaN ELSE Inf(Sgn(x[1])))
    ELSE FRound(Sgn(y[1]) * x[1] * y[2], x[2] * Abs(y[1]))

\* x < y on finite floats.
FLess(x, y) == IsFinite(x) /\ IsFinite(y) /\ x[1] * y[2] < y[1] * x[2]

\* ------------------------------------------------------------------- texts
\* What headers[key] holds for a missing element (and for an empty one).
None == <<"None">>

Digits == <<"0", "1", "2", "3", "4", "5", "6", "7", "8", "9">>

IsDigit(c) == \E k \in 1..10 : Digits[k] = c

DigitVal(c) == (CHOOSE k \in 1..10 : Digits[k] = c) - 1

IsDigitSeq(s) == \A i \in 1..Len(s) : IsDigit(s[i])

RECURSIVE NatVal(_)
NatVal(s) ==
    IF s = <<>> THEN 0
    ELSE 10 * NatVal(SubSeq(s, 1, Len(s) - 1)) + DigitVal(s[Len(s)])

Unsigned(t) == IF Len(t) >= 1 /\ t[1] = "-" THEN Tail(t) ELSE t

Signed(t, v) == IF Len(t) >= 1 /\ t[1] = "-" THEN 0 - v ELSE v

\* int(text): an optional sign and at least one digit.
IsIntText(t) == Unsigned(t) # <<>> /\ IsDigitSeq(Unsigned(t))

IntOf(t) == Signed(t, NatVal(Unsigned(t)))

DotAt(s) == IF \E i \in 1..Len(s) : s[i] = "."
            THEN CHOOSE i \in 1..Len(s) : s[i] = "." /\ \A j \in 1..(i - 1) : s[j] # "."
            ELSE Len(s) + 1

WholePart(s) == SubSeq(s, 1, DotAt(s) - 1)

FracPart(s) == SubSeq(s, DotAt(s) + 1, Len(s))

\* float(text): an optional sign, digits, at most one point, at least one digit.
IsFloatText(t) ==
    LET u == Unsigned(t)
    IN  /\ IsDigitSeq(WholePart(u))
        /\ IsDigitSeq(FracPart(u))
        /\ Len(WholePart(u)) + Len(FracPart(u)) >= 1

FloatOf(t) ==
    LET u == Unsigned(t)
        k == Len(FracPart(u))
    IN  FRound(Signed(t, NatVal(WholePart(u)) * Pow(10, k) + NatVal(FracPart(u))),
               Pow(10, k))


\* ---------------------------------------------------------------- archives
LoaderOTComm == <<"LoaderOTComm">>

LoaderProcessing == <<"LoaderProcessing">>

\* The child tags of a <signal> node that otread looks up.
Keys == {"track_index", "description", "unity_of_measurement", "fsample",
         "ad_bits", "signal_gain", "low_pass_filter", "high_pass_filter"}

Tags == Keys \cup {"plugin", "signal_path", "track_totalnumber"}

\* Interleaved channels of the well-formed recording.
BaseTracks == 3

\* The i-th <signal> node of the well-formed document: tag -> text.
BaseNode(i) ==
    [plugin |-> LoaderOTComm,
     track_index |-> <<Digits[((2 * (i - 1)) % BaseTracks) + 1]>>,
     description |-> <<"d">>,
     unity_of_measurement |-> IF i % 2 = 1 THEN <<"V">> ELSE <<"mV">>,
     fsample |-> <<"1", "0">>,
     ad_bits |-> <<"2">>,
     signal_gain |-> <<"2">>,
     low_pass_filter |-> <<"5">>,
     high_pass_filter |-> <<"1">>,
     signal_path |-> <<"rec.sig">>,
     track_totalnumber |-> <<Digits[BaseTracks + 1]>>]

\* The k-th byte of the raw file: little-endian int16 samples -1, 0, 1, ...
ByteAt(k) ==
    LET v == ((k + 1) \div 2) - 2
        u == IF v < 0 THEN v + 65536 ELSE v
    IN  IF k % 2 = 1 THEN u % 256 ELSE u \div 256

RawBytes(len) == [k \in 1..len |-> ByteAt(k)]

BaseRawLen == 2 * BaseTracks * BaseRows

\* The well-formed archive of n channels.
BaseArchive(n) ==
    [container |-> "ok",
     xml |-> "ok",
     sigs |-> [i \in 1..n |-> BaseNode(i)],
     raw |-> RawBytes(BaseRawLen)]

\* The texts a defect may put in a tag; None removes the element.
TagTexts(tag) ==
    CASE tag = "plugin" -> {None, LoaderProcessing}
      [] tag = "track_index" ->
            {None, <<"-", "1">>, <<"1">>, <<Digits[BaseTracks + 1]>>, <<"1", ".">>}
      [] tag = "description" -> {None}
      [] tag = "unity_of_measurement" -> {None, <<"uV">>}
      [] tag = "fsample" ->
            {None, <<"x">>, <<"0">>, <<"-", "2">>, <<"5">>, <<"0", ".", "5">>}
      [] tag = "ad_bits" -> {None, <<"-", "1">>, <<"1">>}
      [] tag = "signal_gain" -> {None, <<"x">>, <<"0">>, <<"3">>}
      [] tag = "low_pass_filter" -> {None, <<"x">>}
      [] tag = "high_pass_filter" -> {None, <<"x">>}
      [] tag = "signal_path" -> {None, <<"gone.sig">>}
      [] tag = "track_totalnumber" ->
            {None, <<"x">>, <<"0">>, <<"2">>, <<"-", "3">>}

\* The lengths a defect may give the raw file: empty, a row short, an odd
\* number of bytes, a sample count that is no multiple of the channel count.
RawLens == {0} \cup ((BaseRawLen - 2 * BaseTracks - 1)..(BaseRawLen + 1))

\* The single defects of an archive of n <signal> nodes: node 0 is the archive.
Defects(n) ==
    {[node |-> 0, tag |-> "container", text |-> <<"corrupt">>],
     [node |-> 0, tag |-> "xml", text |-> <<"malformed">>]}
    \cup {[node |-> len, tag |-> "raw", text |-> <<>>] : len \in RawLens}
    \cup UNION {UNION {{[node |-> i, tag |-> tag, text |-> t] : t \in TagTexts(tag)}
                       : tag \in Tags} : i \in 1..n}

Defect(a, e) ==
    IF e.tag = "container" THEN [a EXCEPT !.container = "corrupt"]
    ELSE IF e.tag = "xml" THEN [a EXCEPT !.xml = "malformed"]
    ELSE IF e.tag = "raw" THEN [a EXCEPT !.raw = RawBytes(e.node)]
    ELSE [a EXCEPT !.sigs[e.node][e.tag] = e.text]

RECURSIVE Defective(_, _)
Defective(a, es) ==
    IF es = <<>> THEN a ELSE Defective(Defect(a, Head(es)), Tail(es))

\* ------------------------------------------------------------------- files
NoFile == [state |-> "absent", by |-> "nobody"]

\* An output left by an earlier conversion.
Earlier == [state |-> "complete", by |-> "earlier"]

Exists(f) == f.state # "absent"

\* ------------------------------------------------------------------- state
VARIABLES
    archive,            \* the .otb+ file at pathname/filename
    yaml, csv,          \* <basename>.yaml and <basename>.csv
    yamlText, csvText,  \* what otread last wrote into them
    pc,                 \* position in otread
    visited,            \* the positions this call has executed
    outcome,            \* "running", "returned" or "raised"
    errAt,              \* the position that raised
    atStart,            \* the files when otread was called
    tmpdir,             \* PATHTEMP: "none", "exists" or "removed"
    i,                  \* position of the loop over root.iter("signal")
    n_signals, headers, signal_path, track_totalnumber, timestep,
    total,              \* int(track_totalnumber.text)
    opened,             \* whether the raw sample file has been opened
    data,               \* the samples: flat, then a matrix of rows
    n,                  \* position of the calibration loop
    factors             \* the factor applied to each calibrated column

files == <<yaml, csv, yamlText, csvText>>

parsed == <<i, n_signals, headers, signal_path, track_totalnumber, timestep>>

decoded == <<total, opened, data, n, factors>>

vars == <<archive, files, pc, visited, outcome, errAt, atStart, tmpdir,
          parsed, decoded>>

\* A local name not assigned yet.
Unbound == <<"unbound">>

PowerSupply == 5

HeaderKeys == Keys \cup {"power_supply"}

EmptyHeaders == [h \in HeaderKeys |-> <<>>]

Init ==
    /\ \E nodes \in 0..MaxSignals : \E k \in 0..MaxDefects :
          \E es \in [1..k -> Defects(nodes)] :
              archive = Defective(BaseArchive(nodes), es)
    /\ yaml \in {NoFile, Earlier}
    /\ csv \in {NoFile, Earlier}
    /\ yamlText = EmptyHeaders
    /\ csvText = <<>>
    /\ pc = "idle"
    /\ visited = {}
    /\ outcome = "running"
    /\ errAt = "none"
    /\ atStart = files
    /\ tmpdir = "none"
    /\ i = 1
    /\ n_signals = 0
    /\ headers = EmptyHeaders
    /\ signal_path = Unbound
    /\ track_totalnumber = Unbound
    /\ timestep = NaN
    /\ total = 0
    /\ opened = FALSE
    /\ data = <<>>
    /\ n = 1
    /\ factors = <<>>

\* ------------------------------------------------------------------ otread
\* Cleanup as it would be were PATHTEMP made with mkdtemp() and never deleted.
CleanupSkipped(t) == t

\* Leaving the with block deletes the temporary directory.
Cleanup(t) == IF t = "exists" THEN "removed" ELSE t

\* An exception leaves otread from position pc.
Raise ==
    /\ outcome' = "raised"
    /\ errAt' = pc
    /\ pc' = "done"
    /\ tmpdir' = Cleanup(tmpdir)

Goto(next) ==
    /\ pc' = next
    /\ UNCHANGED <<outcome, errAt, tmpdir>>

\* The batch loop calls otread(PATHNAME, FILENAME).
Invoke ==
    /\ pc \in {"idle", "done"}
    /\ pc' = "guard"
    /\ visited' = {}
    /\ outcome' = "running"
    /\ errAt' = "none"
    /\ atStart' = files
    /\ tmpdir' = "none"
    /\ i' = 1
    /\ n_signals' = 0
    /\ headers' = EmptyHeaders
    /\ signal_path' = Unbound
    /\ track_totalnumber' = Unbound
    /\ timestep' = NaN
    /\ total' = 0
    /\ opened' = FALSE
    /\ data' = <<>>
    /\ n' = 1
    /\ factors' = <<>>
    /\ UNCHANGED <<archive, files>>

\* OutputExists as it would be with "and" for "or" in the guard.
OutputExistsBoth(y, c) == Exists(y) /\ Exists(c)

OutputExists(y, c) == Exists(y) \/ Exists(c)

Guard ==
    /\ pc = "guard"
    /\ visited' = visited \cup {pc}
    /\ IF OutputExists(yaml, csv) THEN Raise ELSE Goto("mktemp")
    /\ UNCHANGED <<archive, files, atStart, parsed, decoded>>

MkTemp ==
    /\ pc = "mktemp"
    /\ visited' = visited \cup {pc}
    /\ tmpdir' = "exists"
    /\ pc' = "extract"
    /\ UNCHANGED <<archive, files, outcome, errAt, atStart, parsed, decoded>>

Extract ==
    /\ pc = "extract"
    /\ visited' = visited \cup {pc}
    /\ IF archive.container # "ok" THEN Raise ELSE Goto("parse")
    /\ UNCHANGED <<archive, files, atStart, parsed, decoded>>

ParseXml ==
    /\ pc = "parse"
    /\ visited' = visited \cup {pc}
    /\ IF archive.xml # "ok" THEN Raise ELSE Goto("signals")
    /\ UNCHANGED <<archive, files, atStart, parsed, decoded>>

\* headers with one more channel: 5 for power_supply, the node's texts otherwise.
Collected(h, node) ==
    [k \in HeaderKeys |->
        IF k = "power_supply" THEN Append(h[k], PowerSupply) ELSE Append(h[k], node[k])]

\* 1 / float(text) is defined.
HasTimestep(t) == IsFloatText(t) /\ FloatOf(t) # <<0, 1>>

Timestep(t) == FDiv(FromInt(1), FloatOf(t))

\* One iteration of the loop over the <signal> nodes.
NextSignal ==
    /\ pc = "signals"
    /\ i <= Len(archive.sigs)
    /\ visited' = visited \cup {pc}
    /\ LET node == archive.sigs[i]
       IN  IF node.plugin = None
           THEN Raise /\ UNCHANGED parsed
           ELSE IF node.plugin # LoaderOTComm
           THEN /\ Goto("signals")
                /\ i' = i + 1
                /\ UNCHANGED <<n_signals, headers, signal_path, track_totalnumber,
                               timestep>>
           ELSE /\ n_signals' = n_signals + 1
                /\ headers' = Collected(headers, node)
                /\ i' = i + 1
                /\ IF n_signals + 1 = 1
                   THEN /\ signal_path' = node.signal_path
                        /\ track_totalnumber' = node.track_totalnumber
                        /\ IF HasTimestep(node.fsample)
                           THEN timestep' = Timestep(node.fsample) /\ Goto("signals")
                           ELSE UNCHANGED timestep /\ Raise
                   ELSE /\ Goto("signals")
                        /\ UNCHANGED <<signal_path, track_totalnumber, timestep>>
    /\ UNCHANGED <<archive, files, atStart, decoded>>

HavePaths(sp, tt) == sp # None /\ tt # None

\* if None not in [signal_path, track_totalnumber]
CheckPaths ==
    /\ pc = "signals"
    /\ i > Len(archive.sigs)
    /\ visited' = visited \cup {"check"}
    /\ IF signal_path = Unbound
       THEN Raise
       ELSE IF HavePaths(signal_path, track_totalnumber)
       THEN Goto("coerce")
       ELSE Goto("return")
    /\ UNCHANGED <<archive, files, atStart, parsed, decoded>>

IntHeads == {"track_index", "ad_bits"}

FloatHeads == {"power_supply", "fsample", "signal_gain", "low_pass_filter",
               "high_pass_filter"}

\* np.array(texts, dtype=int) raises on None and on a text that is no integer.
IntArrayOk(texts) == \A k \in 1..Len(texts) : IsIntText(texts[k])

\* np.array(texts, dtype=float) raises on a text that is no number; None gives NaN.
FloatArrayOk(texts) == \A k \in 1..Len(texts) : texts[k] = None \/ IsFloatText(texts[k])

NpFloat(t) == IF t = None THEN NaN ELSE FloatOf(t)

Coerced(h) ==
    [k \in HeaderKeys |->
        IF k \in IntHeads THEN [j \in 1..Len(h[k]) |-> IntOf(h[k][j])]
        ELSE IF k = "power_supply" THEN [j \in 1..Len(h[k]) |-> FromInt(h[k][j])]
        ELSE IF k \in FloatHeads THEN [j \in 1..Len(h[k]) |-> NpFloat(h[k][j])]
        ELSE h[k]]

CoerceOk(h) ==
    /\ \A k \in IntHeads : IntArrayOk(h[k])
    /\ \A k \in FloatHeads \ {"power_supply"} : FloatArrayOk(h[k])

Coerce ==
    /\ pc = "coerce"
    /\ visited' = visited \cup {pc}
    /\ IF CoerceOk(headers)
       THEN headers' = Coerced(headers) /\ Goto("totals")
       ELSE UNCHANGED headers /\ Raise
    /\ UNCHANGED <<archive, files, atStart, i, n_signals, signal_path,
                   track_totalnumber, timestep, decoded>>

\* signal_path.text and int(track_totalnumber.text)
Totals ==
    /\ pc = "totals"
    /\ visited' = visited \cup {pc}
    /\ IF IsIntText(track_totalnumber)
       THEN total' = IntOf(track_totalnumber) /\ Goto("read")
       ELSE UNCHANGED total /\ Raise
    /\ UNCHANGED <<archive, files, atStart, parsed, opened, data, n, factors>>

\* The files the archive extracts besides form_dock00.xml.
Extracted(path) == path = <<"rec.sig">>

Int16(lo, hi) ==
    LET u == lo + 256 * hi
    IN  IF u >= 32768 THEN u - 65536 ELSE u

\* np.frombuffer(bytes, dtype=np.int16).astype(float)
Samples(bytes) ==
    [k \in 1..(Len(bytes) \div 2) |-> FromInt(Int16(bytes[2 * k - 1], bytes[2 * k]))]

ReadSig ==
    /\ pc = "read"
    /\ visited' = visited \cup {pc}
    /\ IF ~Extracted(signal_path)
       THEN Raise /\ UNCHANGED <<opened, data>>
       ELSE /\ opened' = TRUE
            /\ IF Len(archive.raw) % 2 # 0
               THEN Raise /\ UNCHANGED data
               ELSE data' = Samples(archive.raw) /\ Goto("reshape")
    /\ UNCHANGED <<archive, files, atStart, parsed, total, n, factors>>

\* CanReshape as it would be were the trailing samples dropped.
CanReshapeTruncating(len, m) == m > 0

\* np.reshape(flat, (-1, m)) is defined.
CanReshape(len, m) == m > 0 /\ len % m = 0

Reshaped(flat, m) ==
    [r \in 1..(Len(flat) \div m) |-> [c \in 1..m |-> flat[(r - 1) * m + c]]]

Reshape ==
    /\ pc = "reshape"
    /\ visited' = visited \cup {pc}
    /\ IF CanReshape(Len(data), total)
       THEN data' = Reshaped(data, total) /\ Goto("select")
       ELSE UNCHANGED data /\ Raise
    /\ UNCHANGED <<archive, files, atStart, parsed, total, opened, n, factors>>

\* An index numpy accepts for an axis of m entries.
IndexOk(idx, m) == 0 - m <= idx /\ idx < m

\* The column (from 1) that index idx selects: a negative index counts from the end.
Column(idx, m) == IF idx < 0 THEN idx + m + 1 ELSE idx + 1

Selected(rows, idx, m) ==
    [r \in 1..Len(rows) |-> [j \in 1..Len(idx) |-> rows[r][Column(idx[j], m)]]]

Select ==
    /\ pc = "select"
    /\ visited' = visited \cup {pc}
    /\ IF \A j \in 1..n_signals : IndexOk(headers.track_index[j], total)
       THEN data' = Selected(data, headers.track_index, total) /\ Goto("calib")
       ELSE UNCHANGED data /\ Raise
    /\ UNCHANGED <<archive, files, atStart, parsed, total, opened, n, factors>>

\* Recognized as it would be with a default factor in place of the raise.
RecognizedAny(unit) == TRUE

Recognized(unit) == unit = <<"mV">> \/ unit = <<"V">>

Factor(unit) == IF unit = <<"mV">> THEN 1000 ELSE 1

\* x * power_supply / 2**ad_bits * factor / signal_gain
Calibrated(x, ps, bits, factor, gain) ==
    FDiv(FMul(FDiv(FMul(x, ps), FromInt(Pow(2, bits))), FromInt(factor)), gain)

\* One iteration of the calibration loop; 2**ad_bits raises on a negative ad_bits.
Calibrate ==
    /\ pc = "calib"
    /\ visited' = visited \cup {pc}
    /\ IF Recognized(headers.unity_of_measurement[n]) /\ headers.ad_bits[n] >= 0
       THEN /\ data' = [r \in 1..Len(data) |->
                          [data[r] EXCEPT ![n] =
                              Calibrated(@, headers.power_supply[n], headers.ad_bits[n],
                                         Factor(headers.unity_of_measurement[n]),
                                         headers.signal_gain[n])]]
            /\ factors' = Append(factors, Factor(headers.unity_of_measurement[n]))
            /\ n' = n + 1
            /\ Goto(IF n = n_signals THEN "time" ELSE "calib")
       ELSE UNCHANGED <<data, factors, n>> /\ Raise
    /\ UNCHANGED <<archive, files, atStart, parsed, total, opened>>

\* TimeAt as it would be were the index divided by fsample.
TimeAtQuotient(k, step) == FDiv(FromInt(k), headers.fsample[1])

\* np.arange(rows)[k] * timestep
TimeAt(k, step) == FMul(FromInt(k), step)

AppendTime ==
    /\ pc = "time"
    /\ visited' = visited \cup {pc}
    /\ data' = [r \in 1..Len(data) |-> Append(data[r], TimeAt(r - 1, timestep))]
    /\ Goto("yaml")
    /\ UNCHANGED <<archive, files, atStart, parsed, total, opened, n, factors>>

\* What opening a file for writing and writing it through can end in.
WriteResults == {"written", "not opened", "cut short"}

Written == [state |-> "complete", by |-> "otread"]

CutShort == [state |-> "partial", by |-> "otread"]

\* headers[h].tolist() and yaml.dump(headers, file)
WriteYaml ==
    /\ pc = "yaml"
    /\ visited' = visited \cup {pc}
    /\ \E io \in WriteResults :
          IF io = "written"
          THEN yaml' = Written /\ yamlText' = headers /\ Goto("csv")
          ELSE IF io = "cut short"
          THEN yaml' = CutShort /\ yamlText' = EmptyHeaders /\ Raise
          ELSE UNCHANGED <<yaml, yamlText>> /\ Raise
    /\ UNCHANGED <<archive, csv, csvText, atStart, parsed, decoded>>

\* np.savetxt(path, data, delimiter=',')
WriteCsv ==
    /\ pc = "csv"
    /\ visited' = visited \cup {pc}
    /\ \E io \in WriteResults :
          IF io = "written"
          THEN csv' = Written /\ csvText' = data /\ Goto("return")
          ELSE IF io = "cut short"
          THEN csv' = CutShort /\ csvText' = <<>> /\ Raise
          ELSE UNCHANGED <<csv, csvText>> /\ Raise
    /\ UNCHANGED <<archive, yaml, yamlText, atStart, parsed, decoded>>

\* The with block ends and otread returns.
Return ==
    /\ pc = "return"
    /\ visited' = visited \cup {pc}
    /\ outcome' = "returned"
    /\ pc' = "done"
    /\ tmpdir' = Cleanup(tmpdir)
    /\ UNCHANGED <<archive, files, errAt, atStart, parsed, decoded>>

Next ==
    \/ Invoke
    \/ Guard
    \/ MkTemp
    \/ Extract
    \/ ParseXml
    \/ NextSignal
    \/ CheckPaths
    \/ Coerce
    \/ Totals
    \/ ReadSig
    \/ Reshape
    \/ Select
    \/ Calibrate
    \/ AppendTime
    \/ WriteYaml
    \/ WriteCsv
    \/ Return

Spec == Init /\ [][Next]_vars

\* ------------------------------------------------------------------ claims
Done == pc = "done"

Fresh == ~Exists(atStart[1]) /\ ~Exists(atStart[2])

\* The archive extracts and its metadata document parses.
HasMetadata(a) == a.container = "ok" /\ a.xml = "ok"

SelectedNodes(a) == {k \in 1..Len(a.sigs) : a.sigs[k].plugin = LoaderOTComm}

FirstSelected(a) == CHOOSE k \in SelectedNodes(a) : \A j \in SelectedNodes(a) : k <= j

\* The 16-bit samples of the raw file, and their number.
RawSamples == Samples(archive.raw)

SampleCount == Len(archive.raw) \div 2

Units == headers.unity_of_measurement

\* C1: every termination of otread that started with neither output present
\* leaves <basename>.yaml and <basename>.csv both completely written or both
\* absent.
C1_OutputsAllOrNothing ==
    (Done /\ Fresh) =>
        \/ yaml = Written /\ csv = Written
        \/ yaml = NoFile /\ csv = NoFile

\* C2: when either output exists at the call, otread raises at the guard,
\* before any temporary directory is created or the archive extracted, and
\* every file is left as it was; so a second conversion after a successful
\* one fails there and the first run's outputs are unchanged.
C2_ExistingOutputRefused ==
    (pc # "idle" /\ (Exists(atStart[1]) \/ Exists(atStart[2]))) =>
        /\ pc \in {"guard", "done"}
        /\ visited \subseteq {"guard"}
        /\ tmpdir = "none"
        /\ files = atStart
        /\ Done => (outcome = "raised" /\ errAt = "guard")

\* A second conversion of an archive whose first conversion wrote both outputs
\* has been refused.
C2_SecondRunRefused ==
    /\ Done
    /\ errAt = "guard"
    /\ atStart[1] = Written
    /\ atStart[2] = Written
    /\ files = atStart

\* The archives C3 is about: no LoaderOTComm node, or the first one lacks
\* signal_path or track_totalnumber.
NoPaths(a) ==
    /\ HasMetadata(a)
    /\ \/ SelectedNodes(a) = {}
       \/ a.sigs[FirstSelected(a)].signal_path = None
       \/ a.sigs[FirstSelected(a)].track_totalnumber = None

\* C3: for an archive with no LoaderOTComm node, or whose first such node
\* lacks signal_path or track_totalnumber, otread ends by raising, never
\* reaches the decoding of the raw file and writes no output.
C3_NoPathsRaises ==
    (Done /\ NoPaths(archive)) =>
        /\ outcome = "raised"
        /\ "read" \notin visited
        /\ files = atStart

\* A selected channel has a numeric header that is absent or not a number.
BadNumber(a) ==
    /\ HasMetadata(a)
    /\ \E k \in SelectedNodes(a) :
          \/ \E h \in IntHeads : ~IsIntText(a.sigs[k][h])
          \/ \E h \in FloatHeads \ {"power_supply"} : ~IsFloatText(a.sigs[k][h])

\* C4: when a numeric header of a selected channel is absent or not a
\* number, the conversion raises before the raw file is opened and writes no
\* output; no absent header passes coercion.
C4_BadNumberRaises ==
    /\ (Done /\ BadNumber(archive)) =>
          (outcome = "raised" /\ ~opened /\ files = atStart)
    /\ "totals" \in visited =>
          \A k \in SelectedNodes(archive) :
              \A h \in IntHeads \cup (FloatHeads \ {"power_supply"}) :
                  archive.sigs[k][h] # None

\* C5: a calibrated "mV" column got factor 1000 and a "V" column factor 1, no
\* other unit is ever given a factor, and when the calibration meets a
\* channel with another unit (or none) otread raises there and neither output
\* file exists afterwards.
C5_UnitFactor ==
    /\ \A k \in 1..Len(factors) :
          \/ Units[k] = <<"mV">> /\ factors[k] = 1000
          \/ Units[k] = <<"V">> /\ factors[k] = 1
    /\ (Done /\ "calib" \in visited
             /\ \E k \in 1..n_signals : Units[k] \notin {<<"mV">>, <<"V">>}) =>
          /\ outcome = "raised"
          /\ errAt = "calib"
          /\ yaml = NoFile
          /\ csv = NoFile

\* The last channel's unit was refused after an earlier column was calibrated.
C5_LastUnitRefused ==
    /\ Done
    /\ errAt = "calib"
    /\ Len(factors) >= 1
    /\ Units[n_signals] \notin {<<"mV">>, <<"V">>}
    /\ yaml = NoFile
    /\ csv = NoFile

\* C6: a reshape of a sample count that is no multiple of track_totalnumber
\* raises there, before any calibration and with no output written; a
\* reshape that succeeds gives sample count / track_totalnumber rows of
\* track_totalnumber entries.
C6_ReshapeShape ==
    LET ns == SampleCount
    IN  /\ ("reshape" \in visited /\ (total <= 0 \/ ns % total # 0)) =>
              /\ Done
              /\ outcome = "raised"
              /\ errAt = "reshape"
              /\ "calib" \notin visited
              /\ factors = <<>>
              /\ files = atStart
        /\ pc = "select" =>
              /\ total > 0
              /\ Len(data) * total = ns
              /\ \A r \in 1..Len(data) : Len(data[r]) = total

\* A sample count that is no multiple of a positive track_totalnumber was refused.
C6_RaggedRefused ==
    /\ Done
    /\ errAt = "reshape"
    /\ total > 0
    /\ SampleCount % total # 0

\* C7: the selected matrix has (sample count / M) rows and one column per
\* selected channel, and its entry at row r, column j (from 0) is
\* flat[r*M + idx[j]], idx being the channels' track_index in discovery order.
C7_SelectedEntries ==
    ("select" \in visited /\ pc = "calib" /\ n = 1) =>
        /\ Len(data) * total = SampleCount
        /\ \A r \in 1..Len(data) :
              /\ Len(data[r]) = n_signals
              /\ \A j \in 1..n_signals :
                    LET p == (r - 1) * total + headers.track_index[j] + 1
                    IN  p \in 1..Len(RawSamples) /\ data[r][j] = RawSamples[p]

\* The time column of the exported matrix, one entry per row.
TimeColumn == [r \in 1..Len(csvText) |-> csvText[r][Len(csvText[r])]]

Exported == "csv" \in visited /\ csv = Written

\* C8 as stated: the exported time column is the last of k + 1 columns,
\* time[i] = i / fsample exactly, with the first channel's fsample, and it is
\* strictly increasing.
C8_TimeIsIndexOverFsample ==
    Exported =>
        /\ \A r \in 1..Len(csvText) :
              /\ Len(csvText[r]) = n_signals + 1
              /\ TimeColumn[r] = FDiv(FromInt(r - 1), headers.fsample[1])
        /\ \A r \in 1..(Len(csvText) - 1) : FLess(TimeColumn[r], TimeColumn[r + 1])

\* C8 amended: the exported time column is the last of k + 1 columns,
\* time[i] = i * (1 / fsample) in floating point, the reciprocal of the first
\* channel's fsample being rounded before the product, and it is strictly
\* increasing when that reciprocal, the timestep, is positive.
C8_TimeIsIndexTimesStep ==
    Exported =>
        /\ \A r \in 1..Len(csvText) :
              /\ Len(csvText[r]) = n_signals + 1
              /\ TimeColumn[r] =
                    FMul(FromInt(r - 1), FDiv(FromInt(1), headers.fsample[1]))
        /\ FLess(<<0, 1>>, timestep) =>
              \A r \in 1..(Len(csvText) - 1) : FLess(TimeColumn[r], TimeColumn[r + 1])

\* An exported time entry that is not the rounded quotient i / fsample.
C8_ProductDiffersFromQuotient ==
    /\ Exported
    /\ \E r \in 1..Len(csvText) :
          TimeColumn[r] # FDiv(FromInt(r - 1), headers.fsample[1])

\* C9: whenever otread writes its outputs every selected channel's
\* track_index lies in 0..track_totalnumber-1.
C9_IndexInRange ==
    ("yaml" \in visited /\ yaml = Written) =>
        \A j \in 1..n_signals :
            0 <= headers.track_index[j] /\ headers.track_index[j] < total

\* C10: when otread has terminated the temporary directory of the call no
\* longer exists, whichever way it ended, and a call refused at the guard
\* never created one.
C10_TempDirRemoved ==
    /\ "mktemp" \in visited => tmpdir = (IF Done THEN "removed" ELSE "exists")
    /\ "mktemp" \notin visited => tmpdir = "none"
    /\ (Done /\ errAt = "guard") => tmpdir = "none"

\* The directory is gone after an error raised while the outputs were written.
C10_RemovedAfterWriteError ==
    /\ Done
    /\ outcome = "raised"
    /\ errAt = "csv"
    /\ tmpdir = "removed"
====
